---- MODULE Spec2Model ----
\* Model of singer_sdk/helpers/_singer.py: metadata records, MetadataMapping
\* (missing-key policy, get_standard_metadata, resolve_selection) and
\* SelectionMask (missing-key policy).
\* Python None is encoded as {} and a present value v as {v}.
EXTENDS Integers, Sequences, FiniteSets, TLC

VARIABLES meta, mask, resolved, op, lkB, lkAbsent, stdIn, steps,
          doc, prev, cat, hist, pc, parsed, calls, metaKeys, catKeys

\* Serialization and catalog state: doc is a serialized document, prev a
\* mapping or entry before a round trip, cat a Catalog, hist the entries
\* added to it, pc the position in a multi-step scenario, parsed the outcome
\* of CatalogEntry.from_dict, calls the number of _breadcrumb_is_selected
\* calls made by the last resolve_selection. The dicts meta and cat are
\* functions; metaKeys and catKeys are their keys in insertion order.
ExtVars == <<doc, prev, cat, hist, pc, parsed, catKeys>>

vars == <<meta, mask, resolved, op, lkB, lkAbsent, stdIn, steps,
          doc, prev, cat, hist, pc, parsed, calls, metaKeys, catKeys>>

\* ---------------------------------------------------------------- bounds
MaxDepth == 2
MaxOps == 2
MaxAdds == 3

\* ---------------------------------------------------------------- helpers
Val(o) == CHOOSE x \in o : TRUE

\* A well-formed breadcrumb of n levels along one chain of nested properties.
Chain(n) == [i \in 1..(2 * n) |-> IF i % 2 = 1 THEN "properties" ELSE "a"]

Breadcrumbs == {Chain(n) : n \in 0..MaxDepth}

LookupBreadcrumbs == Breadcrumbs \cup {Chain(MaxDepth + 1), <<"properties", "b">>}

SeqRange(sq) == {sq[i] : i \in DOMAIN sq}

\* The key order of a dict after d[k] = v: a new key goes last, an existing
\* key keeps its place.
InsertKey(ks, k) == IF k \in SeqRange(ks) THEN ks ELSE Append(ks, k)

\* breadcrumb[:-2]
Parent(b) == IF Len(b) >= 2 THEN SubSeq(b, 1, Len(b) - 2) ELSE <<>>

InclusionTypes == {"available", "automatic", "unsupported"}

\* Metadata() : every field None
Metadata ==
  [kind |-> "Metadata", inclusion |-> {}, selected |-> {},
   selected_by_default |-> {}, table_key_properties |-> {},
   forced_replication_method |-> {}, valid_replication_keys |-> {},
   schema_name |-> {}]

\* StreamMetadata() : every field None
StreamMetadata == [Metadata EXCEPT !.kind = "StreamMetadata"]

OptBool == {{}, {TRUE}, {FALSE}}
OptInclusion == {{}} \cup {{t} : t \in InclusionTypes}

\* Metadata.from_dict / StreamMetadata.from_dict of a document carrying
\* inclusion i, selected s and selected-by-default d at breadcrumb b.
RecordFor(b, i, s, d) ==
  [(IF b = <<>> THEN StreamMetadata ELSE Metadata) EXCEPT
     !.inclusion = i, !.selected = s, !.selected_by_default = d]

SelectionFields == OptInclusion \X OptBool \X OptBool

\* MetadataMapping.from_iterable of a list holding, for each breadcrumb b
\* with choice[b] = {<<i, s, d>>}, one entry with those fields.
FromChoice(choice) ==
  [b \in {x \in DOMAIN choice : choice[x] # {}} |->
     RecordFor(b, Val(choice[b])[1], Val(choice[b])[2], Val(choice[b])[3])]

Choices(B) == [B -> {{}} \cup {{t} : t \in SelectionFields}]

\* Variant that materializes a non-root Metadata() also for the root.
MetaAfterLookupNoStream(m, b) ==
  IF b \in DOMAIN m THEN m ELSE (b :> Metadata) @@ m

\* MetadataMapping.__missing__ : materialize a default entry
MetaAfterLookup(m, b) ==
  IF b \in DOMAIN m THEN m
  ELSE (b :> (IF b = <<>> THEN StreamMetadata ELSE Metadata)) @@ m

\* Variant that reads the explicit selected flag before the inclusion category.
RECURSIVE BreadcrumbIsSelectedSelectedFirst(_, _)
BreadcrumbIsSelectedSelectedFirst(m, b) ==
  IF DOMAIN m = {} THEN TRUE
  ELSE
    LET md == IF b \in DOMAIN m THEN m[b] ELSE Metadata
        parent_value == IF Len(b) > 0
                          THEN {BreadcrumbIsSelectedSelectedFirst(m, Parent(b))}
                          ELSE {}
    IN IF parent_value = {FALSE} THEN FALSE
       ELSE IF md.selected # {} THEN Val(md.selected)
       ELSE IF md.inclusion = {"unsupported"} THEN FALSE
       ELSE IF md.inclusion = {"automatic"} THEN TRUE
       ELSE IF md.selected_by_default # {} THEN Val(md.selected_by_default)
       ELSE parent_value = {TRUE}

\* Variant without the early return on a deselected parent.
RECURSIVE BreadcrumbIsSelectedNoParentCheck(_, _)
BreadcrumbIsSelectedNoParentCheck(m, b) ==
  IF DOMAIN m = {} THEN TRUE
  ELSE
    LET md == IF b \in DOMAIN m THEN m[b] ELSE Metadata
        parent_value == IF Len(b) > 0
                          THEN {BreadcrumbIsSelectedNoParentCheck(m, Parent(b))}
                          ELSE {}
    IN IF md.inclusion = {"unsupported"} THEN FALSE
       ELSE IF md.inclusion = {"automatic"} THEN TRUE
       ELSE IF md.selected # {} THEN Val(md.selected)
       ELSE IF md.selected_by_default # {} THEN Val(md.selected_by_default)
       ELSE parent_value = {TRUE}

\* Variant that does not inherit the parent value (falls back to False).
RECURSIVE BreadcrumbIsSelectedNoInherit(_, _)
BreadcrumbIsSelectedNoInherit(m, b) ==
  IF DOMAIN m = {} THEN TRUE
  ELSE
    LET md == IF b \in DOMAIN m THEN m[b] ELSE Metadata
        parent_value == IF Len(b) > 0
                          THEN {BreadcrumbIsSelectedNoInherit(m, Parent(b))}
                          ELSE {}
    IN IF parent_value = {FALSE} THEN FALSE
       ELSE IF md.inclusion = {"unsupported"} THEN FALSE
       ELSE IF md.inclusion = {"automatic"} THEN TRUE
       ELSE IF md.selected # {} THEN Val(md.selected)
       ELSE IF md.selected_by_default # {} THEN Val(md.selected_by_default)
       ELSE FALSE

\* MetadataMapping._breadcrumb_is_selected
RECURSIVE BreadcrumbIsSelected(_, _)
BreadcrumbIsSelected(m, b) ==
  IF DOMAIN m = {} THEN TRUE
  ELSE
    LET md == IF b \in DOMAIN m THEN m[b] ELSE Metadata
        parent_value == IF Len(b) > 0
                          THEN {BreadcrumbIsSelected(m, Parent(b))}
                          ELSE {}
    IN IF parent_value = {FALSE} THEN FALSE
       ELSE IF md.inclusion = {"unsupported"} THEN FALSE
       ELSE IF md.inclusion = {"automatic"} THEN TRUE
       ELSE IF md.selected # {} THEN Val(md.selected)
       ELSE IF md.selected_by_default # {} THEN Val(md.selected_by_default)
       ELSE parent_value = {TRUE}

\* MetadataMapping.resolve_selection
ResolveSelection(m) == [b \in DOMAIN m |-> BreadcrumbIsSelected(m, b)]

\* Variant in which an absent root defaults to not selected.
RECURSIVE MaskGetRootFalse(_, _)
MaskGetRootFalse(s, b) ==
  IF b \in DOMAIN s THEN s[b]
  ELSE IF Len(b) >= 2 THEN MaskGetRootFalse(s, Parent(b))
  ELSE FALSE

\* SelectionMask.__getitem__ with SelectionMask.__missing__
RECURSIVE MaskGet(_, _)
MaskGet(s, b) ==
  IF b \in DOMAIN s THEN s[b]
  ELSE IF Len(b) >= 2 THEN MaskGet(s, Parent(b))
  ELSE TRUE

\* Variant of SelectionMask.__missing__ that stores the computed default.
MaskAfterLookupInserting(s, b) ==
  IF b \in DOMAIN s THEN s ELSE (b :> MaskGet(s, b)) @@ s

\* SelectionMask after mask[b]: __missing__ returns without storing.
MaskAfterLookup(s, b) == s

\* MetadataMapping.get_standard_metadata. Inputs: schema is {} (None) or
\* {[keys |-> top-level keys, props |-> names under "properties", in order]};
\* schema_name, key_properties, valid_replication_keys and
\* replication_method are {} (None) or {value}.
TruthyStr(o) == o # {} /\ Val(o) # ""

TruthyList(o) == o # {} /\ Val(o) # <<>>

\* Variant that stores the schema name even without a schema.
GetStandardMetadataAnySchemaName(schema, schema_name, key_properties, valid_replication_keys, replication_method) ==
  LET root0 == [StreamMetadata EXCEPT
                  !.table_key_properties = key_properties,
                  !.forced_replication_method = replication_method,
                  !.valid_replication_keys = valid_replication_keys]
      hasSchema == schema # {} /\ Val(schema).keys # {}
      root == [root0 EXCEPT
                 !.inclusion = IF hasSchema THEN {"available"} ELSE @,
                 !.schema_name = IF TruthyStr(schema_name)
                                   THEN schema_name ELSE @]
      fieldNames == IF hasSchema /\ "properties" \in Val(schema).keys
                      THEN SeqRange(Val(schema).props) ELSE {}
      entries == [b \in {<<"properties", f>> : f \in fieldNames} |->
                    IF TruthyList(key_properties)
                       /\ b[2] \in SeqRange(Val(key_properties))
                      THEN [Metadata EXCEPT !.inclusion = {"automatic"}]
                      ELSE [Metadata EXCEPT !.inclusion = {"available"}]]
  IN (<<>> :> root) @@ entries

GetStandardMetadata(schema, schema_name, key_properties, valid_replication_keys, replication_method) ==
  LET root0 == [StreamMetadata EXCEPT
                  !.table_key_properties = key_properties,
                  !.forced_replication_method = replication_method,
                  !.valid_replication_keys = valid_replication_keys]
      hasSchema == schema # {} /\ Val(schema).keys # {}
      root == IF hasSchema
                THEN [root0 EXCEPT
                        !.inclusion = {"available"},
                        !.schema_name = IF TruthyStr(schema_name)
                                          THEN schema_name ELSE @]
                ELSE root0
      fieldNames == IF hasSchema /\ "properties" \in Val(schema).keys
                      THEN SeqRange(Val(schema).props) ELSE {}
      entries == [b \in {<<"properties", f>> : f \in fieldNames} |->
                    IF TruthyList(key_properties)
                       /\ b[2] \in SeqRange(Val(key_properties))
                      THEN [Metadata EXCEPT !.inclusion = {"automatic"}]
                      ELSE [Metadata EXCEPT !.inclusion = {"available"}]]
  IN (<<>> :> root) @@ entries

\* Key order of get_standard_metadata: the properties in the order of
\* schema["properties"], then the root, which is stored last.
StandardMetadataKeys(schema) ==
  LET hasSchema == schema # {} /\ Val(schema).keys # {}
      props == IF hasSchema /\ "properties" \in Val(schema).keys
                 THEN Val(schema).props ELSE <<>>
  IN [i \in 1..Len(props) |-> <<"properties", props[i]>>] \o <<<<>>>>

\* Number of _breadcrumb_is_selected calls made to resolve b: one, plus the
\* calls of the unmemoized recursion on the parent.
RECURSIVE CallsFor(_, _)
CallsFor(m, b) ==
  IF DOMAIN m = {} THEN 1
  ELSE 1 + (IF Len(b) > 0 THEN CallsFor(m, Parent(b)) ELSE 0)

RECURSIVE SumCalls(_, _)
SumCalls(m, S) ==
  IF S = {} THEN 0
  ELSE LET b == CHOOSE x \in S : TRUE
       IN CallsFor(m, b) + SumCalls(m, S \ {b})

\* Calls made by resolve_selection: one _breadcrumb_is_selected per key.
ResolveCalls(m) == SumCalls(m, DOMAIN m)

\* dataclasses.fields(Metadata) / fields(StreamMetadata)
Fields(kind) ==
  IF kind = "StreamMetadata"
    THEN {"inclusion", "selected", "selected_by_default",
          "table_key_properties", "forced_replication_method",
          "valid_replication_keys", "schema_name"}
    ELSE {"inclusion", "selected", "selected_by_default"}

\* object_field.name.replace("_", "-") for every field name
WireNames ==
  [inclusion |-> "inclusion", selected |-> "selected",
   selected_by_default |-> "selected-by-default",
   table_key_properties |-> "table-key-properties",
   forced_replication_method |-> "forced-replication-method",
   valid_replication_keys |-> "valid-replication-keys",
   schema_name |-> "schema-name"]

\* The field names themselves, without the replacement.
RawNames ==
  [inclusion |-> "inclusion", selected |-> "selected",
   selected_by_default |-> "selected_by_default",
   table_key_properties |-> "table_key_properties",
   forced_replication_method |-> "forced_replication_method",
   valid_replication_keys |-> "valid_replication_keys",
   schema_name |-> "schema_name"]

\* Variant of Metadata.to_dict that writes the raw field names.
MetadataToDictRawNames(r) ==
  LET fs == {g \in Fields(r.kind) : r[g] # {}}
  IN [k \in {RawNames[g] : g \in fs} |->
        Val(r[CHOOSE g \in fs : RawNames[g] = k])]

\* Metadata.to_dict : every non-None field under its hyphenated name
MetadataToDict(r) ==
  LET fs == {g \in Fields(r.kind) : r[g] # {}}
  IN [k \in {WireNames[g] : g \in fs} |->
        Val(r[CHOOSE g \in fs : WireNames[g] = k])]

\* Metadata.from_dict / StreamMetadata.from_dict : value.get(hyphenated name)
\* for every field of the class; other keys of the document are not read.
MetadataFromDict(kind, d) ==
  LET base == IF kind = "StreamMetadata" THEN StreamMetadata ELSE Metadata
  IN [f \in DOMAIN base |->
        IF f = "kind" THEN base.kind
        ELSE IF f \in Fields(kind) /\ WireNames[f] \in DOMAIN d
          THEN {d[WireNames[f]]} ELSE {}]

\* A finite set listed in some fixed order; used to build input documents.
RECURSIVE SetToSeq(_)
SetToSeq(S) ==
  IF S = {} THEN <<>>
  ELSE LET x == CHOOSE y \in S : TRUE IN <<x>> \o SetToSeq(S \ {x})

\* MetadataMapping.to_list: one {"breadcrumb", "metadata"} entry per key,
\* in the mapping's insertion order ks
MetaToList(m, ks) ==
  [i \in 1..Len(ks) |->
     [breadcrumb |-> ks[i], metadata |-> MetadataToDict(m[ks[i]])]]

\* The loop body of from_iterable applied to the entries of L in order:
\* mapping[breadcrumb] = (Stream)Metadata.from_dict(metadata), so a later
\* entry for the same breadcrumb replaces an earlier one in its place.
\* acc is [map |-> the mapping, keys |-> its keys in insertion order].
RECURSIVE FromIterableInto(_, _)
FromIterableInto(acc, L) ==
  IF L = <<>> THEN acc
  ELSE LET b == Head(L).breadcrumb
           r == MetadataFromDict(IF b = <<>> THEN "StreamMetadata" ELSE "Metadata",
                                 Head(L).metadata)
       IN FromIterableInto([map |-> (b :> r) @@ acc.map,
                            keys |-> InsertKey(acc.keys, b)], Tail(L))

\* MetadataMapping.from_iterable
FromIterable(L) == FromIterableInto([map |-> <<>>, keys |-> <<>>], L).map

\* The insertion order of MetadataMapping.from_iterable(L)
FromIterableKeys(L) == FromIterableInto([map |-> <<>>, keys |-> <<>>], L).keys

\* A Python value taken from a document, tagged with its type, as
\* [type |-> "str" or "int", text |-> its text].
PyStr(t) == [type |-> "str", text |-> t]
PyInt(t) == [type |-> "int", text |-> t]

\* bool(v) of a tagged str or int: False for "" and 0
PyTruthy(v) == IF v.type = "int" THEN v.text # "0" ELSE v.text # ""

\* SchemaPlus.from_dict / SchemaPlus.to_dict (singer_sdk.helpers._schema):
\* a schema document d parsed into a schema object and written back.
SchemaFromDict(d) == [kind |-> "SchemaPlus", doc |-> d]

SchemaToDict(sc) == sc.doc

\* d.get(k) of a document d (a function from keys to values)
Get(d, k) == IF k \in DOMAIN d THEN {d[k]} ELSE {}

\* CatalogEntry.to_dict: the base singer CatalogEntry.to_dict, which writes
\* tap_stream_id, database_name and table_name when truthy and the other
\* fields when not None, with "metadata" replaced by metadata.to_list().
EntryToDict(e) ==
  LET opt == [stream |-> e.stream, key_properties |-> e.key_properties,
              replication_key |-> e.replication_key,
              replication_method |-> e.replication_method,
              is_view |-> e.is_view, row_count |-> e.row_count,
              stream_alias |-> e.stream_alias]
      keys == {k \in DOMAIN opt : opt[k] # {}}
              \cup (IF PyTruthy(e.tap_stream_id) THEN {"tap_stream_id"} ELSE {})
              \cup (IF TruthyStr(e.database) THEN {"database_name"} ELSE {})
              \cup (IF TruthyStr(e.table) THEN {"table_name"} ELSE {})
              \cup {"schema", "metadata"}
  IN [k \in keys |->
        CASE k = "tap_stream_id" -> e.tap_stream_id
          [] k = "database_name" -> Val(e.database)
          [] k = "table_name" -> Val(e.table)
          [] k = "schema" -> SchemaToDict(e.schema)
          [] k = "metadata" -> MetaToList(e.metadata, e.metadata_keys)
          [] OTHER -> Val(opt[k])]

\* Variant of CatalogEntry.from_dict that also reads row_count.
EntryFromDictWithRowCount(d) ==
  IF "tap_stream_id" \notin DOMAIN d
    THEN [outcome |-> "KeyError", entries |-> {}]
    ELSE [outcome |-> "ok",
          entries |->
            {[tap_stream_id |-> d["tap_stream_id"],
              stream |-> Get(d, "stream"),
              replication_key |-> Get(d, "replication_key"),
              key_properties |-> Get(d, "key_properties"),
              database |-> Get(d, "database_name"),
              table |-> Get(d, "table_name"),
              schema |-> SchemaFromDict(IF "schema" \in DOMAIN d
                                          THEN d["schema"] ELSE <<>>),
              is_view |-> Get(d, "is_view"),
              stream_alias |-> Get(d, "stream_alias"),
              metadata |-> FromIterable(IF "metadata" \in DOMAIN d
                                          THEN d["metadata"] ELSE <<>>),
              metadata_keys |-> FromIterableKeys(IF "metadata" \in DOMAIN d
                                                   THEN d["metadata"] ELSE <<>>),
              replication_method |-> Get(d, "replication_method"),
              row_count |-> Get(d, "row_count")]}]

\* CatalogEntry.from_dict: stream["tap_stream_id"] raises KeyError when the
\* key is absent; every other field is read with stream.get (row_count is
\* not read and stays None).
EntryFromDict(d) ==
  IF "tap_stream_id" \notin DOMAIN d
    THEN [outcome |-> "KeyError", entries |-> {}]
    ELSE [outcome |-> "ok",
          entries |->
            {[tap_stream_id |-> d["tap_stream_id"],
              stream |-> Get(d, "stream"),
              replication_key |-> Get(d, "replication_key"),
              key_properties |-> Get(d, "key_properties"),
              database |-> Get(d, "database_name"),
              table |-> Get(d, "table_name"),
              schema |-> SchemaFromDict(IF "schema" \in DOMAIN d
                                          THEN d["schema"] ELSE <<>>),
              is_view |-> Get(d, "is_view"),
              stream_alias |-> Get(d, "stream_alias"),
              metadata |-> FromIterable(IF "metadata" \in DOMAIN d
                                          THEN d["metadata"] ELSE <<>>),
              metadata_keys |-> FromIterableKeys(IF "metadata" \in DOMAIN d
                                                   THEN d["metadata"] ELSE <<>>),
              replication_method |-> Get(d, "replication_method"),
              row_count |-> {}]}]

\* Catalog.add_stream: self[entry.tap_stream_id] = entry
CatalogAfterAdd(c, e) == (e.tap_stream_id :> e) @@ c

\* Catalog.get_stream: self.get(stream_id), {} standing for None
CatalogGet(c, id) == IF id \in DOMAIN c THEN {c[id]} ELSE {}

\* Catalog.to_dict: {"streams": [entry.to_dict() for entry in self.streams]},
\* self.streams listing the entries in the insertion order ids
CatalogToDict(c, ids) ==
  [streams |-> [i \in 1..Len(ids) |-> EntryToDict(c[ids[i]])]]

\* The loop of Catalog.from_dict over the streams of L in order: each
\* CatalogEntry.from_dict result is stored under its tap_stream_id (a later
\* stream replaces an earlier one with the same id); a failing entry raises
\* and ends the loop. acc is [cat |-> the catalog, keys |-> its ids in
\* insertion order].
RECURSIVE CatalogFromStreams(_, _)
CatalogFromStreams(acc, L) ==
  IF L = <<>> THEN [outcome |-> "ok", cat |-> acc.cat, keys |-> acc.keys]
  ELSE LET r == EntryFromDict(Head(L))
           e == Val(r.entries)
       IN IF r.outcome # "ok"
            THEN [outcome |-> r.outcome, cat |-> <<>>, keys |-> <<>>]
            ELSE CatalogFromStreams([cat |-> (e.tap_stream_id :> e) @@ acc.cat,
                                     keys |-> InsertKey(acc.keys, e.tap_stream_id)],
                                    Tail(L))

\* Catalog.from_dict
CatalogFromDict(d) ==
  CatalogFromStreams([cat |-> <<>>, keys |-> <<>>],
                     IF "streams" \in DOMAIN d THEN d.streams ELSE <<>>)

\* ---------------------------------------------------------------- actions
InitExt ==
  /\ catKeys = <<>>
  /\ doc = {}
  /\ prev = <<>>
  /\ cat = <<>>
  /\ hist = <<>>
  /\ pc = "idle"
  /\ parsed = {}
  /\ calls = 0

\* mask = mapping.resolve_selection()
Resolve ==
  /\ mask' = ResolveSelection(meta)
  /\ resolved' = TRUE
  /\ op' = "resolve"
  /\ calls' = ResolveCalls(meta)
  /\ UNCHANGED <<meta, metaKeys, lkB, lkAbsent, stdIn>>
  /\ UNCHANGED ExtVars

NextResolve == Resolve /\ UNCHANGED steps

InitResolve ==
  /\ \E choice \in Choices(Breadcrumbs) : meta = FromChoice(choice)
  /\ metaKeys = SetToSeq(DOMAIN meta)
  /\ mask = <<>>
  /\ resolved = FALSE
  /\ op = "init"
  /\ lkB = <<>>
  /\ lkAbsent = FALSE
  /\ stdIn = {}
  /\ steps = 0
  /\ InitExt

SpecResolve == InitResolve /\ [][NextResolve]_vars

\* md = mapping[b] (materializes a default entry when b is absent)
MetaLookup(b) ==
  /\ meta' = MetaAfterLookup(meta, b)
  /\ metaKeys' = InsertKey(metaKeys, b)
  /\ lkB' = b
  /\ lkAbsent' = (b \notin DOMAIN meta)
  /\ op' = "metalookup"
  /\ UNCHANGED <<mask, resolved, stdIn>>
  /\ UNCHANGED <<calls>>
  /\ UNCHANGED ExtVars

\* value = mask[b]
MaskLookup(b) ==
  /\ resolved
  /\ mask' = MaskAfterLookup(mask, b)
  /\ lkB' = b
  /\ lkAbsent' = (b \notin DOMAIN mask)
  /\ op' = "masklookup"
  /\ UNCHANGED <<meta, metaKeys, resolved, stdIn>>
  /\ UNCHANGED <<calls>>
  /\ UNCHANGED ExtVars

\* mapping[b].selected = v
SetSelected(b, v) ==
  /\ meta' = [MetaAfterLookup(meta, b) EXCEPT ![b].selected = v]
  /\ metaKeys' = InsertKey(metaKeys, b)
  /\ op' = "setselected"
  /\ UNCHANGED <<mask, resolved, lkB, lkAbsent, stdIn>>
  /\ UNCHANGED <<calls>>
  /\ UNCHANGED ExtVars

\* mapping[b].inclusion = v
SetInclusion(b, v) ==
  /\ meta' = [MetaAfterLookup(meta, b) EXCEPT ![b].inclusion = v]
  /\ metaKeys' = InsertKey(metaKeys, b)
  /\ op' = "setinclusion"
  /\ UNCHANGED <<mask, resolved, lkB, lkAbsent, stdIn>>
  /\ UNCHANGED <<calls>>
  /\ UNCHANGED ExtVars

\* Mappings parsed from lists whose entries carry only a selected flag.
EditFields == {<<{}, {TRUE}, {}>>, <<{}, {FALSE}, {}>>}

InitEdit ==
  /\ \E choice \in [Breadcrumbs -> {{}} \cup {{t} : t \in EditFields}] :
       meta = FromChoice(choice)
  /\ metaKeys = SetToSeq(DOMAIN meta)
  /\ mask = <<>>
  /\ resolved = FALSE
  /\ op = "init"
  /\ lkB = <<>>
  /\ lkAbsent = FALSE
  /\ stdIn = {}
  /\ steps = 0
  /\ InitExt

NextEdit ==
  /\ steps < MaxOps
  /\ steps' = steps + 1
  /\ \/ Resolve
     \/ \E b \in LookupBreadcrumbs : MetaLookup(b)
     \/ \E b \in LookupBreadcrumbs : MaskLookup(b)
     \/ \E b \in LookupBreadcrumbs, v \in {{TRUE}, {FALSE}} : SetSelected(b, v)
     \/ \E b \in LookupBreadcrumbs, v \in {{"automatic"}, {"unsupported"}} :
          SetInclusion(b, v)

SpecEdit == InitEdit /\ [][NextEdit]_vars

\* Inputs of get_standard_metadata.
PropNames == {"id", "name"}

Schemas ==
  {{}} \cup
  {{[keys |-> k, props |-> IF "properties" \in k THEN p ELSE <<>>]} :
     k \in SUBSET {"properties", "type"},
     p \in {<<>>, <<"id">>, <<"name">>, <<"id", "name">>, <<"name", "id">>}}

SchemaNames == {{}, {""}, {"s"}}

KeyPropertyLists == {{}, {<<>>}, {<<"id">>}, {<<"id", "name">>}}

ReplicationKeyLists == {{}, {<<"name">>}}

ReplicationMethods == {{}, {"INCREMENTAL"}}

\* mapping = MetadataMapping.get_standard_metadata(...)
StandardMetadata ==
  /\ stdIn = {}
  /\ \E sc \in Schemas, sn \in SchemaNames, kp \in KeyPropertyLists,
        vrk \in ReplicationKeyLists, rm \in ReplicationMethods :
       /\ meta' = GetStandardMetadata(sc, sn, kp, vrk, rm)
       /\ metaKeys' = StandardMetadataKeys(sc)
       /\ stdIn' = {[schema |-> sc, schema_name |-> sn, key_properties |-> kp,
                     valid_replication_keys |-> vrk,
                     replication_method |-> rm]}
  /\ op' = "standard"
  /\ UNCHANGED <<mask, resolved, lkB, lkAbsent, steps>>
  /\ UNCHANGED <<calls>>
  /\ UNCHANGED ExtVars

InitStd ==
  /\ meta = <<>>
  /\ metaKeys = <<>>
  /\ mask = <<>>
  /\ resolved = FALSE
  /\ op = "init"
  /\ lkB = <<>>
  /\ lkAbsent = FALSE
  /\ stdIn = {}
  /\ steps = 0
  /\ InitExt

\* mask = mapping.resolve_selection() on the fresh standard mapping
ResolveStandard == stdIn # {} /\ ~resolved /\ Resolve /\ UNCHANGED steps

NextStd == StandardMetadata \/ ResolveStandard

SpecStd == InitStd /\ [][NextStd]_vars

\* Metadata documents as they appear in a catalog's "metadata" list: each key
\* carries one value, "custom" is a key the core does not model.
DocValues ==
  [inclusion |-> "automatic", selected |-> FALSE,
   selected_by_default |-> TRUE, table_key_properties |-> <<"id">>,
   forced_replication_method |-> "INCREMENTAL",
   valid_replication_keys |-> <<>>, schema_name |-> "s"]

WireValue(k) ==
  IF k = "custom" THEN 7
  ELSE DocValues[CHOOSE f \in DOMAIN WireNames : WireNames[f] = k]

RootDocKeys ==
  {"selected", "table-key-properties", "valid-replication-keys",
   "schema-name", "custom"}

FieldDocKeys == {"inclusion", "selected-by-default", "schema-name", "custom"}

DocsFor(b) ==
  {[k \in K |-> WireValue(k)] :
     K \in SUBSET (IF b = <<>> THEN RootDocKeys ELSE FieldDocKeys)}

DistinctMetadataLists ==
  {R \cup F :
     R \in {{}} \cup {{[breadcrumb |-> <<>>, metadata |-> d]} : d \in DocsFor(<<>>)},
     F \in {{[breadcrumb |-> b, metadata |-> Val(c[b])] :
              b \in {x \in DOMAIN c : c[x] # {}}} :
            c \in [Breadcrumbs \ {<<>>} ->
                     {{}} \cup {{d} : d \in DocsFor(Chain(1))}]}}

Reverse(sq) == [i \in 1..Len(sq) |-> sq[Len(sq) + 1 - i]]

\* Metadata lists: the distinct-breadcrumb lists above in two orders, and
\* lists that give the root twice.
MetadataLists ==
  {SetToSeq(L) : L \in DistinctMetadataLists}
  \cup {Reverse(SetToSeq(L)) : L \in DistinctMetadataLists}
  \cup {<<[breadcrumb |-> <<>>, metadata |-> [selected |-> x]],
         [breadcrumb |-> <<>>, metadata |-> [selected |-> ~x]]>> :
           x \in BOOLEAN}

\* mapping = MetadataMapping.from_iterable(metadata_list)
ParseList ==
  /\ pc = "idle"
  /\ meta' = FromIterable(doc)
  /\ metaKeys' = FromIterableKeys(doc)
  /\ prev' = doc
  /\ pc' = "parsed"
  /\ op' = "from_iterable"
  /\ UNCHANGED <<mask, resolved, lkB, lkAbsent, stdIn, steps, doc, cat,
                 catKeys, hist, parsed, calls>>

\* metadata_list = mapping.to_list()
WriteList ==
  /\ pc = "parsed"
  /\ doc' = MetaToList(meta, metaKeys)
  /\ pc' = "written"
  /\ op' = "to_list"
  /\ UNCHANGED <<meta, metaKeys, catKeys, mask, resolved, lkB, lkAbsent, stdIn, steps, prev,
                 cat, hist, parsed, calls>>

\* mapping = MetadataMapping.from_iterable(mapping.to_list()) again
ReparseList ==
  /\ pc = "written"
  /\ meta' = FromIterable(doc)
  /\ metaKeys' = FromIterableKeys(doc)
  /\ prev' = meta
  /\ pc' = "reparsed"
  /\ op' = "from_iterable"
  /\ UNCHANGED <<mask, resolved, lkB, lkAbsent, stdIn, steps, doc, cat,
                 catKeys, hist, parsed, calls>>

InitSer ==
  /\ meta = <<>>
  /\ metaKeys = <<>>
  /\ catKeys = <<>>
  /\ mask = <<>>
  /\ resolved = FALSE
  /\ op = "init"
  /\ lkB = <<>>
  /\ lkAbsent = FALSE
  /\ stdIn = {}
  /\ steps = 0
  /\ doc \in MetadataLists
  /\ prev = <<>>
  /\ cat = <<>>
  /\ hist = <<>>
  /\ pc = "idle"
  /\ parsed = {}
  /\ calls = 0

NextSer == ParseList \/ WriteList \/ ReparseList

SpecSer == InitSer /\ [][NextSer]_vars

\* Catalog entries: each optional field None or one value.
SchemaDocs == {<<>>, [type |-> "object"]}

\* Entry metadata mappings as [map |-> mapping, keys |-> insertion order].
EntryMetadata ==
  LET r == [StreamMetadata EXCEPT !.selected = {FALSE}]
      f == [Metadata EXCEPT !.inclusion = {"automatic"}]
  IN {[map |-> <<>>, keys |-> <<>>],
      [map |-> (<<>> :> r), keys |-> <<<<>>>>],
      [map |-> (<<>> :> r) @@ (Chain(1) :> f), keys |-> <<<<>>, Chain(1)>>],
      [map |-> (<<>> :> r) @@ (Chain(1) :> f), keys |-> <<Chain(1), <<>>>>]}

OptionalEntryValues ==
  [stream |-> "x", key_properties |-> <<"id">>,
   replication_key |-> "updated_at", replication_method |-> "INCREMENTAL",
   is_view |-> FALSE, database |-> "db", table |-> "tb", row_count |-> 5,
   stream_alias |-> "al"]

EntryWith(id, present, sd, md) ==
  [tap_stream_id |-> id,
   stream |-> IF "stream" \in present THEN {OptionalEntryValues.stream} ELSE {},
   key_properties |-> IF "key_properties" \in present
                        THEN {OptionalEntryValues.key_properties} ELSE {},
   replication_key |-> IF "replication_key" \in present
                         THEN {OptionalEntryValues.replication_key} ELSE {},
   replication_method |-> IF "replication_method" \in present
                            THEN {OptionalEntryValues.replication_method} ELSE {},
   is_view |-> IF "is_view" \in present THEN {OptionalEntryValues.is_view} ELSE {},
   database |-> IF "database" \in present THEN {OptionalEntryValues.database} ELSE {},
   table |-> IF "table" \in present THEN {OptionalEntryValues.table} ELSE {},
   row_count |-> IF "row_count" \in present THEN {OptionalEntryValues.row_count} ELSE {},
   stream_alias |-> IF "stream_alias" \in present
                      THEN {OptionalEntryValues.stream_alias} ELSE {},
   schema |-> SchemaFromDict(sd),
   metadata |-> md.map,
   metadata_keys |-> md.keys]

Entries ==
  {EntryWith(PyStr("s1"), present, sd, md) :
     present \in SUBSET DOMAIN OptionalEntryValues,
     sd \in SchemaDocs, md \in EntryMetadata}

InitVars ==
  /\ meta = <<>>
  /\ metaKeys = <<>>
  /\ catKeys = <<>>
  /\ mask = <<>>
  /\ resolved = FALSE
  /\ op = "init"
  /\ lkB = <<>>
  /\ lkAbsent = FALSE
  /\ stdIn = {}
  /\ steps = 0
  /\ cat = <<>>
  /\ hist = <<>>
  /\ parsed = {}
  /\ calls = 0

\* d = entry.to_dict()
WriteEntry ==
  /\ pc = "idle"
  /\ doc' = EntryToDict(prev)
  /\ pc' = "serialized"
  /\ op' = "entry_to_dict"
  /\ UNCHANGED <<meta, metaKeys, catKeys, mask, resolved, lkB, lkAbsent, stdIn, steps, prev,
                 cat, hist, parsed, calls>>

\* entry = CatalogEntry.from_dict(d)
ReadEntry ==
  /\ pc \in {"serialized", "document"}
  /\ parsed' = EntryFromDict(doc)
  /\ pc' = "reparsed"
  /\ op' = "entry_from_dict"
  /\ UNCHANGED <<meta, metaKeys, catKeys, mask, resolved, lkB, lkAbsent, stdIn, steps, doc,
                 prev, cat, hist, calls>>

InitEntry == InitVars /\ prev \in Entries /\ doc = {} /\ pc = "idle"

SpecEntry == InitEntry /\ [][WriteEntry \/ ReadEntry]_vars

\* Stream documents as read from a catalog: tap_stream_id absent, a string
\* or an integer, plus some optional keys.
StreamDocs ==
  {[k \in K \cup I |->
      CASE k = "tap_stream_id" -> id
        [] k = "stream" -> "x"
        [] k = "row_count" -> 5
        [] k = "schema" -> [type |-> "object"]
        [] k = "key_properties" -> <<"id">>
        [] OTHER -> <<[breadcrumb |-> <<>>, metadata |-> [selected |-> FALSE]]>>] :
     K \in SUBSET {"stream", "row_count", "schema", "metadata", "key_properties"},
     I \in {{}, {"tap_stream_id"}},
     id \in {PyStr("s1"), PyInt("42")}}

InitDocument ==
  InitVars /\ prev = <<>> /\ doc \in StreamDocs /\ pc = "document"

SpecDocument == InitDocument /\ [][ReadEntry]_vars

\* Entries added to a catalog: three stream ids (one of them the empty
\* string), two versions of each.
CatalogEntries ==
  {EntryWith(PyStr(id), present, <<>>, [map |-> <<>>, keys |-> <<>>]) :
     id \in {"s1", "s2", ""}, present \in {{}, {"stream"}}}

StreamIds == {PyStr("s1"), PyStr("s2"), PyStr("s3"), PyStr("")}

\* catalog.add_stream(entry)
AddStream(e) ==
  /\ Len(hist) < MaxAdds
  /\ cat' = CatalogAfterAdd(cat, e)
  /\ catKeys' = InsertKey(catKeys, e.tap_stream_id)
  /\ hist' = Append(hist, e)
  /\ op' = "add_stream"
  /\ UNCHANGED <<meta, metaKeys, mask, resolved, lkB, lkAbsent, stdIn, steps,
                 doc, prev, pc, parsed, calls>>

\* catalog.get_stream(stream_id)
GetStream(id) ==
  /\ parsed' = [outcome |-> "get", id |-> id, entries |-> CatalogGet(cat, id)]
  /\ op' = "get_stream"
  /\ UNCHANGED <<meta, metaKeys, mask, resolved, lkB, lkAbsent, stdIn, steps,
                 doc, prev, cat, catKeys, hist, pc, calls>>

\* Catalog.from_dict(catalog.to_dict())
CatalogRoundTrip ==
  /\ doc' = CatalogToDict(cat, catKeys)
  /\ prev' = CatalogFromDict(CatalogToDict(cat, catKeys))
  /\ op' = "catalog_roundtrip"
  /\ UNCHANGED <<meta, metaKeys, mask, resolved, lkB, lkAbsent, stdIn, steps,
                 cat, catKeys, hist, pc, parsed, calls>>

InitCatalog == InitVars /\ doc = {} /\ prev = <<>> /\ pc = "idle"

NextCatalog ==
  \/ \E e \in CatalogEntries : AddStream(e)
  \/ \E id \in StreamIds : GetStream(id)
  \/ CatalogRoundTrip

SpecCatalog == InitCatalog /\ [][NextCatalog]_vars

\* Catalog documents with one stream "s1" whose metadata list gives each
\* breadcrumb an optional inclusion and an optional selected=true.
SelectionDocs ==
  {[k \in K |-> IF k = "inclusion" THEN inc ELSE TRUE] :
     K \in SUBSET {"inclusion", "selected"}, inc \in {"automatic", "available"}}

CatalogDocs ==
  {[streams |->
      <<[tap_stream_id |-> PyStr("s1"),
         metadata |-> SetToSeq({[breadcrumb |-> b, metadata |-> Val(c[b])] :
                                  b \in {x \in DOMAIN c : c[x] # {}}})]>>] :
     c \in [Breadcrumbs -> {{}} \cup {{d} : d \in SelectionDocs}]}

\* catalog = Catalog.from_dict(document); a document that raises assigns
\* nothing.
ParseCatalog ==
  /\ pc \in {"idle", "written"}
  /\ CatalogFromDict(doc).outcome = "ok"
  /\ cat' = CatalogFromDict(doc).cat
  /\ catKeys' = CatalogFromDict(doc).keys
  /\ pc' = IF pc = "idle" THEN "parsed" ELSE "reparsed"
  /\ op' = "catalog_from_dict"
  /\ UNCHANGED <<meta, metaKeys, mask, resolved, lkB, lkAbsent, stdIn, steps,
                 doc, prev, hist, parsed, calls>>

\* catalog.get_stream("s1").metadata.root.selected = False
DeselectStream ==
  /\ pc = "parsed"
  /\ cat' = [cat EXCEPT ![PyStr("s1")].metadata =
                [MetaAfterLookup(@, <<>>) EXCEPT ![<<>>].selected = {FALSE}],
              ![PyStr("s1")].metadata_keys = InsertKey(@, <<>>)]
  /\ pc' = "deselected"
  /\ op' = "deselect"
  /\ UNCHANGED <<meta, metaKeys, mask, resolved, lkB, lkAbsent, stdIn, steps,
                 doc, prev, hist, parsed, calls, catKeys>>

\* document = catalog.to_dict()
WriteCatalog ==
  /\ pc = "deselected"
  /\ doc' = CatalogToDict(cat, catKeys)
  /\ pc' = "written"
  /\ op' = "catalog_to_dict"
  /\ UNCHANGED <<meta, metaKeys, catKeys, mask, resolved, lkB, lkAbsent, stdIn, steps, prev,
                 cat, hist, parsed, calls>>

\* mask = catalog.get_stream("s1").metadata.resolve_selection()
ResolveStream ==
  /\ pc = "reparsed"
  /\ meta' = cat[PyStr("s1")].metadata
  /\ metaKeys' = cat[PyStr("s1")].metadata_keys
  /\ mask' = ResolveSelection(cat[PyStr("s1")].metadata)
  /\ resolved' = TRUE
  /\ calls' = ResolveCalls(cat[PyStr("s1")].metadata)
  /\ pc' = "done"
  /\ op' = "resolve"
  /\ UNCHANGED <<lkB, lkAbsent, stdIn, steps, doc, prev, cat, catKeys, hist,
                 parsed>>

InitPipeline == InitVars /\ doc \in CatalogDocs /\ prev = <<>> /\ pc = "idle"

NextPipeline == ParseCatalog \/ DeselectStream \/ WriteCatalog \/ ResolveStream

SpecPipeline == InitPipeline /\ [][NextPipeline]_vars

\* ---------------------------------------------------------------- claims

\* Reference precedence of the selection contract (parent false, unsupported,
\* automatic, selected, selected-by-default, inherited parent value, and
\* False when there is no parent determination).
RECURSIVE RefSelected(_, _)
RefSelected(m, b) ==
  LET md == IF b \in DOMAIN m THEN m[b] ELSE Metadata
      hasParent == b # <<>>
      pv == IF hasParent THEN RefSelected(m, Parent(b)) ELSE FALSE
  IN CASE hasParent /\ ~pv -> FALSE
       [] md.inclusion = {"unsupported"} -> FALSE
       [] md.inclusion = {"automatic"} -> TRUE
       [] md.selected # {} -> Val(md.selected)
       [] md.selected_by_default # {} -> Val(md.selected_by_default)
       [] OTHER -> pv

\* C1: for a non-empty mapping, resolve_selection has one entry per explicit
\* key, and each entry equals the reference precedence.
C1_ResolveMatchesPrecedence ==
  (resolved /\ DOMAIN meta # {}) =>
    /\ DOMAIN mask = DOMAIN meta
    /\ \A b \in DOMAIN mask : mask[b] = RefSelected(meta, b)

C1_Witness ==
  /\ resolved
  /\ Chain(2) \in DOMAIN meta
  /\ meta[Chain(2)].selected = {}
  /\ meta[Chain(2)].inclusion = {}
  /\ meta[Chain(2)].selected_by_default = {FALSE}
  /\ MaskGet(mask, Chain(1))

\* C2: the mask of an empty mapping looks up every breadcrumb as selected.
C2_EmptyMappingSelectsAll ==
  (resolved /\ DOMAIN meta = {}) =>
    \A b \in LookupBreadcrumbs : MaskGet(mask, b) = TRUE

C2_Witness == resolved /\ DOMAIN meta = {}

\* C3: a breadcrumb whose parent looks up as not selected in the mask is not
\* selected, whatever its own metadata says.
C3_DownwardMonotonic ==
  resolved =>
    \A b \in DOMAIN mask :
      (b # <<>> /\ MaskGet(mask, Parent(b)) = FALSE) => mask[b] = FALSE

C3_Witness ==
  /\ resolved
  /\ <<>> \in DOMAIN meta
  /\ meta[<<>>].selected = {FALSE}
  /\ Chain(1) \in DOMAIN meta
  /\ meta[Chain(1)].selected = {TRUE}
  /\ meta[Chain(1)].inclusion = {"automatic"}

\* C4: an unsupported breadcrumb is never selected.
C4_UnsupportedNeverSelected ==
  resolved =>
    \A b \in DOMAIN mask :
      meta[b].inclusion = {"unsupported"} => mask[b] = FALSE

C4_Witness ==
  /\ resolved
  /\ Chain(1) \in DOMAIN meta
  /\ meta[Chain(1)].inclusion = {"unsupported"}
  /\ meta[Chain(1)].selected = {TRUE}
  /\ MaskGet(mask, <<>>) = TRUE
  /\ <<>> \in DOMAIN meta

\* C5 (original): an automatic breadcrumb is always selected.
C5_AutomaticAlwaysSelected ==
  resolved =>
    \A b \in DOMAIN mask :
      meta[b].inclusion = {"automatic"} => mask[b] = TRUE

\* C5 (amended): an automatic breadcrumb is selected exactly when it is the
\* root or its parent resolves selected (an absent root resolving not
\* selected), whatever its own selected flag.
C5_AutomaticSelectedUnderSelectedParent ==
  resolved =>
    \A b \in DOMAIN mask :
      meta[b].inclusion = {"automatic"} =>
        mask[b] = (b = <<>> \/ RefSelected(meta, Parent(b)))

C5_Witness ==
  /\ resolved
  /\ Chain(1) \in DOMAIN meta
  /\ meta[Chain(1)].inclusion = {"automatic"}
  /\ meta[Chain(1)].selected = {FALSE}
  /\ mask[Chain(1)] = TRUE

\* C6 (original): a non-root breadcrumb without inclusion override, selected
\* or selected-by-default gets the value its parent has in the mask.
NoOverride(r) ==
  /\ r.inclusion \in {{}, {"available"}}
  /\ r.selected = {}
  /\ r.selected_by_default = {}

C6_InheritsParent ==
  resolved =>
    \A b \in DOMAIN mask :
      (b # <<>> /\ NoOverride(meta[b])) => mask[b] = MaskGet(mask, Parent(b))

\* C6 (amended): the same holds whenever the mapping has a root entry.
C6_InheritsParentWithRoot ==
  (resolved /\ <<>> \in DOMAIN meta) =>
    \A b \in DOMAIN mask :
      (b # <<>> /\ NoOverride(meta[b])) => mask[b] = MaskGet(mask, Parent(b))

C6_Witness ==
  /\ resolved
  /\ <<>> \in DOMAIN meta
  /\ Chain(2) \in DOMAIN meta
  /\ Chain(1) \notin DOMAIN meta
  /\ NoOverride(meta[Chain(2)])
  /\ mask[Chain(2)] = TRUE

\* C7: looking up b in a selection mask returns mask[b] when present, else the
\* value of the nearest present ancestor, else True.
Ancestors(b) == {SubSeq(b, 1, 2 * k) : k \in 0..(Len(b) \div 2)}

NearestAncestorValue(s, b) ==
  LET present == {x \in Ancestors(b) : x \in DOMAIN s}
  IN IF present = {} THEN TRUE
     ELSE s[CHOOSE x \in present : \A y \in present : Len(y) <= Len(x)]

C7_MaskLookupTotal ==
  resolved =>
    \A b \in LookupBreadcrumbs : MaskGet(mask, b) = NearestAncestorValue(mask, b)

C7_Witness ==
  /\ op = "masklookup"
  /\ lkAbsent
  /\ lkB = Chain(2)
  /\ Chain(1) \notin DOMAIN mask
  /\ <<>> \in DOMAIN mask
  /\ mask[<<>>] = FALSE

\* C8: once computed, the selection mask is not changed by any later
\* operation other than a new resolve_selection call.
C8_MaskIsSnapshot ==
  [][(resolved /\ op' # "resolve") => mask' = mask]_vars

C8_Witness ==
  /\ resolved
  /\ op \in {"setselected", "setinclusion"}
  /\ ResolveSelection(meta) # mask

\* C9: looking up an absent breadcrumb in a metadata mapping materializes an
\* all-None record, StreamMetadata for the root and Metadata otherwise.
C9_MetaLookupMaterializes ==
  (op = "metalookup" /\ lkAbsent) =>
    /\ lkB \in DOMAIN meta
    /\ meta[lkB] = IF lkB = <<>> THEN StreamMetadata ELSE Metadata

C9_Witness == op = "metalookup" /\ lkAbsent /\ lkB = <<>>

\* C10 (original): the root carries every supplied sync parameter including
\* the schema name; a supplied schema makes the root available and gives each
\* top-level property an entry, automatic iff it is a key property.
IsKeyProperty(kp, f) == kp # {} /\ f \in SeqRange(Val(kp))

C10_StandardMetadata ==
  op = "standard" =>
    LET in == Val(stdIn)
        r == meta[<<>>]
    IN /\ r.table_key_properties = in.key_properties
       /\ r.valid_replication_keys = in.valid_replication_keys
       /\ r.forced_replication_method = in.replication_method
       /\ r.schema_name = in.schema_name
       /\ in.schema # {} =>
            /\ r.inclusion = {"available"}
            /\ \A f \in SeqRange(Val(in.schema).props) :
                 /\ <<"properties", f>> \in DOMAIN meta
                 /\ meta[<<"properties", f>>].inclusion =
                      IF IsKeyProperty(in.key_properties, f)
                        THEN {"automatic"} ELSE {"available"}

\* C10 (amended): as above, except that the schema name is stored, the root
\* made available and the property entries created only when the schema is
\* a non-empty dict (and the schema name only when it is non-empty).
C10_StandardMetadataAmended ==
  op = "standard" =>
    LET in == Val(stdIn)
        r == meta[<<>>]
        nonEmpty == in.schema # {} /\ Val(in.schema).keys # {}
        fields == IF nonEmpty /\ "properties" \in Val(in.schema).keys
                    THEN SeqRange(Val(in.schema).props) ELSE {}
    IN /\ r.kind = "StreamMetadata"
       /\ r.table_key_properties = in.key_properties
       /\ r.valid_replication_keys = in.valid_replication_keys
       /\ r.forced_replication_method = in.replication_method
       /\ r.schema_name = IF nonEmpty /\ TruthyStr(in.schema_name)
                             THEN in.schema_name ELSE {}
       /\ r.inclusion = IF nonEmpty THEN {"available"} ELSE {}
       /\ DOMAIN meta = {<<>>} \cup {<<"properties", f>> : f \in fields}
       /\ \A f \in fields :
            meta[<<"properties", f>>].inclusion =
              IF IsKeyProperty(in.key_properties, f)
                THEN {"automatic"} ELSE {"available"}

C10_Witness ==
  /\ op = "standard"
  /\ Val(stdIn).key_properties = {<<"id">>}
  /\ Val(stdIn).schema_name = {"s"}
  /\ DOMAIN meta = {<<>>, <<"properties", "id">>, <<"properties", "name">>}

\* C11: from_iterable(to_list(M)) has the same keys as M and every field of
\* every record (inclusion, selected, selected-by-default and the root's
\* stream-level fields) equal to M's.
C11_ListRoundTrip ==
  pc = "reparsed" =>
    /\ DOMAIN meta = DOMAIN prev
    /\ \A b \in DOMAIN meta : meta[b] = prev[b]

C11_Witness ==
  /\ pc = "reparsed"
  /\ <<>> \in DOMAIN meta
  /\ meta[<<>>].table_key_properties # {}
  /\ meta[<<>>].valid_replication_keys # {}
  /\ \E b \in DOMAIN meta \ {<<>>} : meta[b].selected_by_default # {}

\* C12: after from_iterable followed by to_list, every key of every input
\* metadata document, including keys the core does not model, is still
\* present with its value.
C12_UnknownFieldsKept ==
  pc = "written" =>
    \A i \in DOMAIN prev : \A k \in DOMAIN prev[i].metadata :
      \E j \in DOMAIN doc :
        /\ doc[j].breadcrumb = prev[i].breadcrumb
        /\ k \in DOMAIN doc[j].metadata
        /\ doc[j].metadata[k] = prev[i].metadata[k]

\* C13: CatalogEntry.from_dict(E.to_dict()) reproduces E's tap_stream_id,
\* schema, every sync parameter and the contents of its metadata mapping.
C13_EntryRoundTrip ==
  pc = "reparsed" =>
    /\ parsed.outcome = "ok"
    /\ LET e2 == Val(parsed.entries)
       IN /\ e2.tap_stream_id = prev.tap_stream_id
          /\ e2.schema = prev.schema
          /\ e2.stream = prev.stream
          /\ e2.key_properties = prev.key_properties
          /\ e2.replication_key = prev.replication_key
          /\ e2.replication_method = prev.replication_method
          /\ e2.is_view = prev.is_view
          /\ e2.database = prev.database
          /\ e2.table = prev.table
          /\ e2.row_count = prev.row_count
          /\ e2.stream_alias = prev.stream_alias
          /\ e2.metadata = prev.metadata

\* C14: CatalogEntry.from_dict of a stream document whose tap_stream_id is
\* absent or not a string fails with a MalformedCatalogEntry error and
\* produces no entry.
C14_MissingIdentityRejected ==
  pc = "reparsed" =>
    (("tap_stream_id" \notin DOMAIN doc \/ doc["tap_stream_id"].type # "str") =>
       /\ parsed.outcome = "MalformedCatalogEntry"
       /\ parsed.entries = {})

\* C15: after any add_stream calls the catalog holds one entry per added id,
\* the most recently added one; get_stream returns it or None; and
\* Catalog.from_dict(catalog.to_dict()) has the same stream ids.
AddedIds == {hist[i].tap_stream_id : i \in DOMAIN hist}

LastAdded(id) ==
  hist[CHOOSE i \in DOMAIN hist :
         /\ hist[i].tap_stream_id = id
         /\ \A j \in DOMAIN hist : j > i => hist[j].tap_stream_id # id]

C15_CatalogContainer ==
  /\ DOMAIN cat = AddedIds
  /\ \A id \in DOMAIN cat : cat[id] = LastAdded(id)
  /\ op = "get_stream" =>
       parsed.entries = IF parsed.id \in AddedIds
                          THEN {LastAdded(parsed.id)} ELSE {}
  /\ op = "catalog_roundtrip" =>
       prev.outcome = "ok" /\ DOMAIN prev.cat = DOMAIN cat

\* C16 (original): after parse, root selected=false, to_dict, from_dict and
\* resolve_selection, every breadcrumb of the stream looks up not selected.
C16_DeselectedStreamAllFalse ==
  pc = "done" => \A b \in LookupBreadcrumbs : MaskGet(mask, b) = FALSE

\* C16 (amended): the same holds unless the stream's root metadata has
\* inclusion automatic (which overrides selected=false).
C16_DeselectedStreamAllFalseUnlessAutomatic ==
  (pc = "done" /\ meta[<<>>].inclusion # {"automatic"}) =>
    \A b \in LookupBreadcrumbs : MaskGet(mask, b) = FALSE

C16_Witness ==
  /\ pc = "done"
  /\ meta[<<>>].inclusion # {"automatic"}
  /\ \E b \in DOMAIN meta \ {<<>>} : meta[b].selected = {TRUE}

\* C17: resolve_selection makes at most one _breadcrumb_is_selected call per
\* distinct breadcrumb it needs (the keys and their ancestors), i.e. ancestor
\* results are memoized within the pass.
AncestorClosure(S) == UNION {Ancestors(b) : b \in S}

C17_ResolveLinear ==
  resolved => calls <= Cardinality(AncestorClosure(DOMAIN meta))

\* C18 (original): looking up a breadcrumb of the mapping (materializing it
\* when absent) does not change what resolve_selection reports for any
\* breadcrumb.
C18_LookupPreservesResolution ==
  [][op' = "metalookup" =>
       \A b \in LookupBreadcrumbs :
         MaskGet(ResolveSelection(meta'), b) = MaskGet(ResolveSelection(meta), b)]_vars

\* C18 (amended): the same holds when the mapping already has a root entry.
C18_LookupPreservesResolutionWithRoot ==
  [][(op' = "metalookup" /\ <<>> \in DOMAIN meta) =>
       \A b \in LookupBreadcrumbs :
         MaskGet(ResolveSelection(meta'), b) = MaskGet(ResolveSelection(meta), b)]_vars

C18_Witness ==
  /\ op = "metalookup"
  /\ lkAbsent
  /\ lkB # <<>>
  /\ <<>> \in DOMAIN meta
  /\ meta[<<>>].selected = {TRUE}

\* C19: in a fresh get_standard_metadata mapping with a non-empty schema the
\* root and every property, automatic key properties included, resolve to
\* not selected.
C19_StandardMappingUnselected ==
  (resolved /\ stdIn # {} /\ Val(stdIn).schema # {}
     /\ Val(Val(stdIn).schema).keys # {}) =>
    \A b \in {<<>>} \cup {<<"properties", f>> : f \in PropNames} :
      MaskGet(mask, b) = FALSE

C19_Witness ==
  /\ resolved
  /\ stdIn # {}
  /\ \E b \in DOMAIN meta : meta[b].inclusion = {"automatic"}

====
